---- MODULE Spec2Model ----
(***************************************************************************)
(* Model of the playbook actions of my_playbook_repo:                      *)
(*   cordon_stateful_nodes.py : cordon_stateful_nodes (one named node)     *)
(*   my_actions.py            : cordon_stateful_nodes (label selector),    *)
(*                              resize_persistent_volume                   *)
(* The cluster (nodes, one PersistentVolumeClaim) is shared state; every   *)
(* invocation of an action is a process whose steps are cut at the cluster *)
(* API calls it makes (read_node, list_node, patch_node, PVC read/patch).  *)
(* Strings the code inspects or computes with (label values, the storage   *)
(* request) are sequences of one-character strings.                        *)
(***************************************************************************)
EXTENDS Integers, Sequences, FiniteSets, TLC

VARIABLES nodes, pvc_storage, inv

vars == <<nodes, pvc_storage, inv>>

----------------------------------------------------------------------------
(* Bounds of the model *)

\* largest storage request (in Gi) a PersistentVolumeClaim starts with or is resized from
MaxSize == 45

\* invocation slots: at most this many invocations are in flight at once
Procs == {"p1", "p2"}

\* number of nodes in the cluster
NumNodes == 3

\* the nodes of the cluster, and the order list_node returns them in
NodeNamePool == <<"n1", "n2", "n3", "n4", "n5">>
ListOrder == SubSeq(NodeNamePool, 1, NumNodes)
NodeNames == {ListOrder[i] : i \in 1..NumNodes}

\* node_name parameters tried: the nodes, a name the cluster does not have, and ""
NodeNameInputs == NodeNames \cup {"ghost", ""}

\* the PersistentVolumeClaim of the cluster, and the names tried
PVCName == "data"
PVCNameInputs == {"data", "missing"}

----------------------------------------------------------------------------
(* Strings *)

STATEFUL == <<"s","t","a","t","e","f","u","l">>

\* Python's `pat in s` for strings
Contains(s, pat) ==
    \E i \in 0..(Len(s) - Len(pat)) : SubSeq(s, i + 1, i + Len(pat)) = pat

\* mutant: the match ignores the case of the first letter
has_stateful_value_nocase(labels) ==
    \E k \in DOMAIN labels :
        \/ Contains(labels[k], STATEFUL)
        \/ Contains(labels[k], <<"S">> \o Tail(STATEFUL))

\* mutant: the match runs over the label keys as well as the values
has_stateful_key_or_value(labels) ==
    \E k \in DOMAIN labels :
        \/ Contains(labels[k], STATEFUL)
        \/ k = "stateful"

\* any("stateful" in value for value in labels.values())
has_stateful_value(labels) ==
    \E k \in DOMAIN labels : Contains(labels[k], STATEFUL)

GroupKey == "node.paytm.com/group"

\* label mappings a node may carry
LabelsStatefulDb == (GroupKey :> <<"s","t","a","t","e","f","u","l","-","d","b">>)
LabelsFrontend   == ("tier" :> <<"f","r","o","n","t","e","n","d">>)
LabelsUpperCase  == (GroupKey :> <<"S","t","a","t","e","f","u","l">>)
                      @@ ("stateful" :> <<"n","o">>)
LabelsRole       == ("tier" :> <<"d","b">>)
                      @@ ("role" :> <<"m","y","-","s","t","a","t","e","f","u","l","-","s","e","t">>)

LabelMaps == {LabelsStatefulDb, LabelsFrontend, LabelsUpperCase, LabelsRole}

\* the label mappings of the clusters that overlapping invocations run on
ConcLabelMaps == {LabelsStatefulDb, LabelsFrontend}

\* label_selector parameters tried (a bare key selects the nodes that carry the key)
SelectorInputs == {GroupKey, "tier"}

----------------------------------------------------------------------------
(* The event an invocation reports to, and the API calls it makes *)

Finding(title, subject, aggregation_key, finding_type, failure) ==
    [title |-> title, subject |-> subject, aggregation_key |-> aggregation_key,
     finding_type |-> finding_type, failure |-> failure]

\* MarkdownBlock(f"...{subject}..."): the fixed text, the name interpolated into it,
\* and (for ', '.join(cordoned_nodes)) the names joined into it
MarkdownBlock(text, subject, names) ==
    [text |-> text, subject |-> subject, names |-> names]

\* a call of the cluster API: the operation, the object named, the body sent
\* (spec.unschedulable of a node patch, the storage request of a PVC patch) and
\* whether the API answered without an error
ApiCall(op, name, unschedulable, storage, ok) ==
    [op |-> op, name |-> name, unschedulable |-> unschedulable, storage |-> storage,
     ok |-> ok]

NoOutcome == [n \in NodeNames |-> "NONE"]

NoNodes == [n \in NodeNames |-> [labels |-> LabelsFrontend, unschedulable |-> FALSE]]

NoNode == [name |-> "", labels |-> LabelsFrontend, unschedulable |-> FALSE]

\* an invocation slot: the action's parameters and locals, the event's findings and
\* enrichments, the API calls made, the exception that ended it, and (as a trace of
\* the branch taken per node) the outcome of each node examined
IdleInvocation ==
    [kind |-> "idle", pc |-> "idle", arg |-> "",
     node |-> NoNode, items |-> <<>>, idx |-> 0, cordoned_nodes |-> <<>>,
     current_size |-> <<>>, new_size_str |-> <<>>,
     findings |-> <<>>, enrichments |-> <<>>, calls |-> <<>>,
     raised |-> "none", outcome |-> NoOutcome, pre |-> NoNodes,
     prev_cordoned |-> {}]

add_finding(r, f) == [r EXCEPT !.findings = Append(@, f)]
add_enrichment(r, b) == [r EXCEPT !.enrichments = Append(@, b)]
call(r, c) == [r EXCEPT !.calls = Append(@, c)]
\* an exception leaves the action: the invocation ends there
raise(r, code) == [r EXCEPT !.raised = code, !.pc = "done"]
return(r) == [r EXCEPT !.pc = "done"]

\* what the API returns for a node: its name, labels and spec.unschedulable
Descriptor(n) ==
    [name |-> n, labels |-> nodes[n].labels, unschedulable |-> nodes[n].unschedulable]

\* the nodes after the API call (if any) that took invocation r to r2: a patch_node
\* that succeeded sets spec.unschedulable to the value sent, and nothing else
nodes_after(r, r2) ==
    IF Len(r2.calls) > Len(r.calls)
    THEN LET c == r2.calls[Len(r2.calls)] IN
         IF c.op = "patch_node" /\ c.ok
         THEN [nodes EXCEPT ![c.name].unschedulable = c.unschedulable]
         ELSE nodes
    ELSE nodes

\* the storage request after the API call (if any) that took invocation r to r2
storage_after(r, r2) ==
    IF Len(r2.calls) > Len(r.calls)
    THEN LET c == r2.calls[Len(r2.calls)] IN
         IF c.op = "patch_pvc" /\ c.ok THEN c.storage ELSE pvc_storage
    ELSE pvc_storage

----------------------------------------------------------------------------
(* Starting an invocation: the framework calls the action with an empty event *)

\* nodes the finished invocation in this slot examined and that were stateful
\* and unschedulable when it started
CordonedAtStart(r) ==
    {n \in NodeNames : /\ r.outcome[n] # "NONE"
                       /\ has_stateful_value(r.pre[n].labels)
                       /\ r.pre[n].unschedulable}

Start(p, kind, arg, pc) ==
    /\ inv[p].pc \in {"idle", "done"}
    /\ inv' = [inv EXCEPT ![p] =
                 [IdleInvocation EXCEPT !.kind = kind, !.arg = arg, !.pc = pc,
                                        !.pre = nodes,
                                        !.prev_cordoned = CordonedAtStart(inv[p])]]
    /\ UNCHANGED <<nodes, pvc_storage>>

\* no invocation is in flight
Quiescent == \A q \in Procs : inv[q].pc \in {"idle", "done"}

----------------------------------------------------------------------------
(* cordon_stateful_nodes.py: cordon_stateful_nodes(event, params), params.node_name *)

\* mutant: node_name is not validated before the cluster is contacted
CordonNode_read_result_unvalidated(r, config_ok, read_ok) ==
    IF ~config_ok
    THEN raise(r, "ConfigException")
    ELSE LET ok == r.arg \in NodeNames /\ read_ok
             c == call(r, ApiCall("read_node", r.arg, FALSE, <<>>, ok)) IN
         IF ok
         THEN [c EXCEPT !.node = Descriptor(r.arg), !.pc = "cordon"]
         ELSE raise(c, "ACTION_UNEXPECTED_ERROR")

\* lines 17-39: validation, client configuration, read_node
CordonNode_read_result(r, config_ok, read_ok) ==
    IF r.arg = ""
    THEN raise(r, "ACTION_VALIDATION_ERROR")
    ELSE IF ~config_ok
    THEN raise(r, "ConfigException")
    ELSE LET ok == r.arg \in NodeNames /\ read_ok
             c == call(r, ApiCall("read_node", r.arg, FALSE, <<>>, ok)) IN
         IF ok
         THEN [c EXCEPT !.node = Descriptor(r.arg), !.pc = "cordon"]
         ELSE raise(c, "ACTION_UNEXPECTED_ERROR")

CordonNode_Read(p) ==
    /\ inv[p].kind = "single" /\ inv[p].pc = "read"
    /\ \E config_ok \in BOOLEAN, read_ok \in BOOLEAN :
         inv' = [inv EXCEPT ![p] = CordonNode_read_result(inv[p], config_ok, read_ok)]
    /\ UNCHANGED <<nodes, pvc_storage>>

\* lines 57-70: the finding and enrichment added when the action runs to its end
CordonNode_report(r) ==
    return(add_enrichment(
        add_finding(r, Finding("Cordoned Stateful Node", "", "CordonStatefulNodes",
                               "REPORT", FALSE)),
        MarkdownBlock("Node cordoned", r.node.name, <<>>)))

\* mutant: a failed patch is logged and the action carries on to its report
CordonNode_cordon_result_swallow(r, patch_ok) ==
    LET n == r.node.name IN
    IF has_stateful_value(r.node.labels)
    THEN IF r.node.unschedulable
         THEN CordonNode_report(
                 add_enrichment([r EXCEPT !.outcome[n] = "ALREADY_CORDONED"],
                                MarkdownBlock("Node already cordoned", n, <<>>)))
         ELSE LET c == call(r, ApiCall("patch_node", n, TRUE, <<>>, patch_ok)) IN
              IF patch_ok
              THEN CordonNode_report(
                      add_enrichment([c EXCEPT !.outcome[n] = "CORDONED"],
                                     MarkdownBlock("Node cordoned", n, <<>>)))
              ELSE CordonNode_report([c EXCEPT !.outcome[n] = "FAILED"])
    ELSE CordonNode_report([r EXCEPT !.outcome[n] = "SKIPPED_NOT_STATEFUL"])

\* mutant: the patch flips the flag that was read instead of setting it
CordonNode_cordon_result_toggle(r, patch_ok) ==
    LET n == r.node.name IN
    IF has_stateful_value(r.node.labels)
    THEN LET c == call(r, ApiCall("patch_node", n, ~r.node.unschedulable, <<>>, patch_ok)) IN
         IF patch_ok
         THEN CordonNode_report(
                 add_enrichment([c EXCEPT !.outcome[n] = "CORDONED"],
                                MarkdownBlock("Node cordoned", n, <<>>)))
         ELSE raise([c EXCEPT !.outcome[n] = "FAILED"], "ACTION_UNEXPECTED_ERROR")
    ELSE CordonNode_report([r EXCEPT !.outcome[n] = "SKIPPED_NOT_STATEFUL"])

\* lines 41-70 on the node read
CordonNode_cordon_result(r, patch_ok) ==
    LET n == r.node.name IN
    IF has_stateful_value(r.node.labels)
    THEN IF r.node.unschedulable
         THEN CordonNode_report(
                 add_enrichment([r EXCEPT !.outcome[n] = "ALREADY_CORDONED"],
                                MarkdownBlock("Node already cordoned", n, <<>>)))
         ELSE LET c == call(r, ApiCall("patch_node", n, TRUE, <<>>, patch_ok)) IN
              IF patch_ok
              THEN CordonNode_report(
                      add_enrichment([c EXCEPT !.outcome[n] = "CORDONED"],
                                     MarkdownBlock("Node cordoned", n, <<>>)))
              ELSE raise([c EXCEPT !.outcome[n] = "FAILED"], "ACTION_UNEXPECTED_ERROR")
    ELSE CordonNode_report([r EXCEPT !.outcome[n] = "SKIPPED_NOT_STATEFUL"])

CordonNode_Cordon(p) ==
    /\ inv[p].kind = "single" /\ inv[p].pc = "cordon"
    /\ \E patch_ok \in BOOLEAN :
         LET r2 == CordonNode_cordon_result(inv[p], patch_ok) IN
         /\ inv' = [inv EXCEPT ![p] = r2]
         /\ nodes' = nodes_after(inv[p], r2)
    /\ UNCHANGED pvc_storage

InvokeCordonNode(p) ==
    \E node_name \in NodeNameInputs : Start(p, "single", node_name, "read")

----------------------------------------------------------------------------
(* my_actions.py: cordon_stateful_nodes(event, params), params.label_selector *)

\* v1.list_node(label_selector=...).items: the nodes carrying the key, in list order
list_node(label_selector) ==
    LET names == SelectSeq(ListOrder, LAMBDA n : label_selector \in DOMAIN nodes[n].labels)
    IN  [i \in 1..Len(names) |-> Descriptor(names[i])]

\* mutant: the summary is chosen by whether any node was listed
CordonSelector_summary_by_items(r) ==
    IF r.items # <<>>
    THEN return(add_enrichment(
             add_finding(r, Finding("Cordoned Stateful Nodes", "", "CordonStatefulNodes",
                                    "REPORT", FALSE)),
             MarkdownBlock("Cordoned nodes", "", r.cordoned_nodes)))
    ELSE return(add_enrichment(
             add_finding(r, Finding("No Stateful Nodes Found", "", "CordonStatefulNodes",
                                    "REPORT", FALSE)),
             MarkdownBlock("No stateful nodes found to cordon.", "", <<>>)))

\* lines 148-177: the summary finding and enrichment
CordonSelector_summary(r) ==
    IF r.cordoned_nodes # <<>>
    THEN return(add_enrichment(
             add_finding(r, Finding("Cordoned Stateful Nodes", "", "CordonStatefulNodes",
                                    "REPORT", FALSE)),
             MarkdownBlock("Cordoned nodes", "", r.cordoned_nodes)))
    ELSE return(add_enrichment(
             add_finding(r, Finding("No Stateful Nodes Found", "", "CordonStatefulNodes",
                                    "REPORT", FALSE)),
             MarkdownBlock("No stateful nodes found to cordon.", "", <<>>)))

\* line 117: once the loop has run over every item, the code after it runs
CordonSelector_after_loop(r) ==
    IF r.idx > Len(r.items) THEN CordonSelector_summary(r) ELSE r

\* lines 110-116: client configuration, list_node
CordonSelector_list_result(r, config_ok, list_ok) ==
    IF ~config_ok
    THEN raise(r, "ConfigException")
    ELSE LET c == call(r, ApiCall("list_node", r.arg, FALSE, <<>>, list_ok)) IN
         IF list_ok
         THEN CordonSelector_after_loop(
                 [c EXCEPT !.items = list_node(r.arg), !.cordoned_nodes = <<>>,
                           !.idx = 1, !.pc = "loop"])
         ELSE raise(c, "ApiException")

CordonSelector_List(p) ==
    /\ inv[p].kind = "selector" /\ inv[p].pc = "list"
    /\ \E config_ok \in BOOLEAN, list_ok \in BOOLEAN :
         inv' = [inv EXCEPT ![p] = CordonSelector_list_result(inv[p], config_ok, list_ok)]
    /\ UNCHANGED <<nodes, pvc_storage>>

\* mutant: the loop body patches a stateful node whether or not it is cordoned
CordonSelector_body_result_repatch(r, patch_ok) ==
    LET node == r.items[r.idx]
        n == node.name
        next == [r EXCEPT !.idx = @ + 1]
    IN
    IF has_stateful_value(node.labels)
    THEN LET c == call(next, ApiCall("patch_node", n, TRUE, <<>>, patch_ok)) IN
         IF patch_ok
         THEN add_enrichment(
                 [c EXCEPT !.cordoned_nodes = Append(@, n), !.outcome[n] = "CORDONED"],
                 MarkdownBlock("Node cordoned", n, <<>>))
         ELSE add_enrichment(
                 add_finding([c EXCEPT !.outcome[n] = "FAILED"],
                             Finding("Error cordoning node", n,
                                     "CordonStatefulNodesError", "ISSUE", TRUE)),
                 MarkdownBlock("Failed to cordon node", n, <<>>))
    ELSE [next EXCEPT !.outcome[n] = "SKIPPED_NOT_STATEFUL"]

\* mutant: a failed patch leaves the loop: the exception is not caught
CordonSelector_body_result_abort(r, patch_ok) ==
    LET node == r.items[r.idx]
        n == node.name
        next == [r EXCEPT !.idx = @ + 1]
    IN
    IF has_stateful_value(node.labels)
    THEN IF ~node.unschedulable
         THEN LET c == call(next, ApiCall("patch_node", n, TRUE, <<>>, patch_ok)) IN
              IF patch_ok
              THEN add_enrichment(
                      [c EXCEPT !.cordoned_nodes = Append(@, n), !.outcome[n] = "CORDONED"],
                      MarkdownBlock("Node cordoned", n, <<>>))
              ELSE raise([c EXCEPT !.outcome[n] = "FAILED"], "Exception")
         ELSE [next EXCEPT !.outcome[n] = "ALREADY_CORDONED"]
    ELSE [next EXCEPT !.outcome[n] = "SKIPPED_NOT_STATEFUL"]

\* lines 117-146: the loop body on item r.items[r.idx]
CordonSelector_body_result(r, patch_ok) ==
    LET node == r.items[r.idx]
        n == node.name
        next == [r EXCEPT !.idx = @ + 1]
    IN
    IF has_stateful_value(node.labels)
    THEN IF ~node.unschedulable
         THEN LET c == call(next, ApiCall("patch_node", n, TRUE, <<>>, patch_ok)) IN
              IF patch_ok
              THEN add_enrichment(
                      [c EXCEPT !.cordoned_nodes = Append(@, n), !.outcome[n] = "CORDONED"],
                      MarkdownBlock("Node cordoned", n, <<>>))
              ELSE add_enrichment(
                      add_finding([c EXCEPT !.outcome[n] = "FAILED"],
                                  Finding("Error cordoning node", n,
                                          "CordonStatefulNodesError", "ISSUE", TRUE)),
                      MarkdownBlock("Failed to cordon node", n, <<>>))
         ELSE [next EXCEPT !.outcome[n] = "ALREADY_CORDONED"]
    ELSE [next EXCEPT !.outcome[n] = "SKIPPED_NOT_STATEFUL"]

\* one iteration of the loop (and, after the last one, lines 148-177)
CordonSelector_Loop(p) ==
    /\ inv[p].kind = "selector" /\ inv[p].pc = "loop"
    /\ inv[p].idx <= Len(inv[p].items)
    /\ \E patch_ok \in BOOLEAN :
         LET r2 == CordonSelector_body_result(inv[p], patch_ok) IN
         /\ inv' = [inv EXCEPT ![p] = CordonSelector_after_loop(r2)]
         /\ nodes' = nodes_after(inv[p], r2)
    /\ UNCHANGED pvc_storage

InvokeCordonSelector(p) ==
    \E label_selector \in SelectorInputs : Start(p, "selector", label_selector, "list")

----------------------------------------------------------------------------
(* my_actions.py: resize_persistent_volume(event, params), params.name *)

DigitChars == <<"0","1","2","3","4","5","6","7","8","9">>

digit_value(ch) == (CHOOSE d \in 1..10 : DigitChars[d] = ch) - 1

\* str.strip(chars): leading and trailing characters of the set removed
RECURSIVE lstrip(_, _)
lstrip(s, chars) ==
    IF s # <<>> /\ Head(s) \in chars THEN lstrip(Tail(s), chars) ELSE s

RECURSIVE rstrip(_, _)
rstrip(s, chars) ==
    IF s # <<>> /\ s[Len(s)] \in chars THEN rstrip(SubSeq(s, 1, Len(s) - 1), chars) ELSE s

strip(s, chars) == rstrip(lstrip(s, chars), chars)

\* the strings int() converts here: one or more decimal digits
is_decimal(s) ==
    s # <<>> /\ \A i \in 1..Len(s) : \E d \in 1..10 : DigitChars[d] = s[i]

\* int(s) of a string of decimal digits
RECURSIVE parse_int(_)
parse_int(s) ==
    IF s = <<>> THEN 0
    ELSE parse_int(SubSeq(s, 1, Len(s) - 1)) * 10 + digit_value(s[Len(s)])

\* f"{n}" of a natural number
RECURSIVE format_int(_)
format_int(n) ==
    IF n < 10 THEN <<DigitChars[n + 1]>>
    ELSE format_int(n \div 10) \o <<DigitChars[(n % 10) + 1]>>

\* the double 1.05: its 53-bit significand 4728779608739021 (the value is the
\* significand / 2^52), as three limbs of 18 bits, lowest first
LimbBase == 262144
Double_1_05 == <<52429, 209715, 68812>>

RECURSIVE Pow2(_)
Pow2(k) == IF k = 0 THEN 1 ELSE 2 * Pow2(k - 1)

RECURSIVE BitLen(_)
BitLen(x) == IF x = 0 THEN 0 ELSE 1 + BitLen(x \div 2)

\* int(n * 1.05) in IEEE-754 double arithmetic, for 0 <= n < 4096: the exact product
\* n * significand, rounded to 53 bits (to nearest, ties to even), then truncated
int_times_1_05(n) ==
    IF n = 0 THEN 0
    ELSE
    LET t0 == n * Double_1_05[1]
        p0 == t0 % LimbBase
        t1 == n * Double_1_05[2] + (t0 \div LimbBase)
        p1 == t1 % LimbBase
        p2 == n * Double_1_05[3] + (t1 \div LimbBase)
        \* bits of the product beyond 53: they are rounded away
        k  == 36 + BitLen(p2) - 53
        rem == p0 % Pow2(k)
        half == Pow2(k) \div 2
        odd == ((p0 \div Pow2(k)) % 2) = 1
        up == k > 0 /\ (rem > half \/ (rem = half /\ odd))
        q0 == p0 - rem + (IF up THEN Pow2(k) ELSE 0)
        q1 == p1 + (q0 \div LimbBase)
        q2 == p2 + (q1 \div LimbBase)
    IN  q2 \div 65536

GiSuffix == <<"G", "i">>

PVCError(r) ==
    Finding("Error resizing PersistentVolumeClaim", r.arg, "PVCResizeError", "ISSUE", TRUE)

\* lines 35-59: read of the claim, and the new size computed from it
resize_read_result(r, read_ok) ==
    LET ok == r.arg = PVCName /\ read_ok
        c == call(r, ApiCall("read_pvc", r.arg, FALSE, <<>>, ok)) IN
    IF ~ok
    THEN return(add_enrichment(add_finding(c, PVCError(r)),
                    MarkdownBlock("Resize failed because PersistentVolumeClaim doesn't exist",
                                  r.arg, <<>>)))
    ELSE LET current_size == pvc_storage
             digits == strip(current_size, {"G", "i"}) IN
         IF ~is_decimal(digits)
         THEN raise(c, "ValueError")
         ELSE [c EXCEPT !.current_size = current_size,
                        !.new_size_str = format_int(int_times_1_05(parse_int(digits)))
                                            \o GiSuffix,
                        !.pc = "pvc_patch"]

resize_Read(p) ==
    /\ inv[p].kind = "resize" /\ inv[p].pc = "pvc_read"
    /\ \E read_ok \in BOOLEAN :
         inv' = [inv EXCEPT ![p] = resize_read_result(inv[p], read_ok)]
    /\ UNCHANGED <<nodes, pvc_storage>>

\* lines 60-94: the patch of the claim with the new storage request
resize_patch_result(r, patch_ok) ==
    LET c == call(r, ApiCall("patch_pvc", r.arg, FALSE, r.new_size_str, patch_ok)) IN
    IF patch_ok
    THEN return(add_enrichment(
             add_finding(c, Finding("Resized PersistentVolumeClaim", r.arg,
                                    "PVCResizeSuccess", "REPORT", FALSE)),
             MarkdownBlock("Resized PVC", r.arg, <<>>)))
    ELSE return(add_enrichment(add_finding(c, PVCError(r)),
             MarkdownBlock("Resize failed for PersistentVolumeClaim", r.arg, <<>>)))

resize_Patch(p) ==
    /\ inv[p].kind = "resize" /\ inv[p].pc = "pvc_patch"
    /\ \E patch_ok \in BOOLEAN :
         LET r2 == resize_patch_result(inv[p], patch_ok) IN
         /\ inv' = [inv EXCEPT ![p] = r2]
         /\ pvc_storage' = storage_after(inv[p], r2)
    /\ UNCHANGED nodes

\* the claim has not grown beyond the sizes the model follows
StorageWithinBound ==
    LET digits == strip(pvc_storage, {"G", "i"}) IN
    is_decimal(digits) => parse_int(digits) <= MaxSize

InvokeResize(p) ==
    /\ StorageWithinBound
    /\ \E name \in PVCNameInputs : Start(p, "resize", name, "pvc_read")

----------------------------------------------------------------------------
(* Specifications *)

\* the storage requests a claim starts with: 1Gi .. MaxSize Gi, and one in Mi
StorageInputs ==
    {format_int(n) \o GiSuffix : n \in 1..MaxSize} \cup {<<"5","1","2","M","i">>}

\* every cluster of three nodes over the label mappings, cordoned or not
Init ==
    /\ nodes \in [NodeNames -> [labels : LabelMaps, unschedulable : BOOLEAN]]
    /\ pvc_storage = <<"2","0","G","i">>
    /\ inv = [p \in Procs |-> IdleInvocation]

\* invocations of the cordon actions, one after the other
Next ==
    \/ (Quiescent /\ InvokeCordonNode("p1"))
    \/ CordonNode_Read("p1")
    \/ CordonNode_Cordon("p1")
    \/ (Quiescent /\ InvokeCordonSelector("p1"))
    \/ CordonSelector_List("p1")
    \/ CordonSelector_Loop("p1")

Spec == Init /\ [][Next]_vars

\* invocations of the cordon actions that overlap: each slot runs on its own
InitConc ==
    /\ nodes \in [NodeNames -> [labels : ConcLabelMaps, unschedulable : BOOLEAN]]
    /\ pvc_storage = <<"2","0","G","i">>
    /\ inv = [p \in Procs |-> IdleInvocation]

NextConc ==
    \E p \in Procs :
        \/ (inv[p].pc = "idle" /\ InvokeCordonNode(p))
        \/ CordonNode_Read(p)
        \/ CordonNode_Cordon(p)
        \/ (inv[p].pc = "idle" /\ InvokeCordonSelector(p))
        \/ CordonSelector_List(p)
        \/ CordonSelector_Loop(p)

SpecConc == InitConc /\ [][NextConc]_vars

\* invocations of resize_persistent_volume, one after the other
InitResize ==
    /\ nodes = [n \in NodeNames |-> [labels |-> LabelsFrontend, unschedulable |-> FALSE]]
    /\ pvc_storage \in StorageInputs
    /\ inv = [p \in Procs |-> IdleInvocation]

NextResize ==
    \/ (Quiescent /\ InvokeResize("p1"))
    \/ resize_Read("p1")
    \/ resize_Patch("p1")

SpecResize == InitResize /\ [][NextResize]_vars

TypeOK ==
    /\ \A n \in NodeNames : nodes[n].unschedulable \in BOOLEAN
    /\ \A p \in Procs : inv[p].pc \in {"idle", "read", "cordon", "list", "loop",
                                       "pvc_read", "pvc_patch", "done"}

----------------------------------------------------------------------------
(* Vocabulary of the properties *)

Range(f) == {f[i] : i \in DOMAIN f}

\* the specification's StatefulnessPredicate: some label value contains the
\* characters s,t,a,t,e,f,u,l in a row (values, not keys; case-sensitive)
StatefulCandidate(labels) ==
    \E k \in DOMAIN labels : \E i \in 1..Len(labels[k]) :
        /\ i + 7 <= Len(labels[k])
        /\ labels[k][i] = "s"     /\ labels[k][i + 1] = "t" /\ labels[k][i + 2] = "a"
        /\ labels[k][i + 3] = "t" /\ labels[k][i + 4] = "e" /\ labels[k][i + 5] = "f"
        /\ labels[k][i + 6] = "u" /\ labels[k][i + 7] = "l"

IsCordon(r) == r.kind \in {"single", "selector"}

\* indexes of the API calls of invocation r with operation op on the object named n
CallsOf(r, op, n) == {i \in DOMAIN r.calls : r.calls[i].op = op /\ r.calls[i].name = n}

PatchCalls(r, n) == CallsOf(r, "patch_node", n)

\* the node descriptors invocation r has made its decision pass on
Examined(r) ==
    IF r.kind = "single"
    THEN IF r.pc = "done" /\ \E i \in DOMAIN r.calls : r.calls[i].op = "read_node" /\ r.calls[i].ok
         THEN {r.node} ELSE {}
    ELSE IF r.kind = "selector"
    THEN {r.items[i] : i \in 1..(r.idx - 1)}
    ELSE {}

ExaminedNames(r) == {d.name : d \in Examined(r)}

\* names of the nodes of the patch_node calls of r that satisfy Keep, in call order
PatchedNames(r, Keep(_)) ==
    LET sel == SelectSeq(r.calls, LAMBDA c : c.op = "patch_node" /\ Keep(c))
    IN  [i \in 1..Len(sel) |-> sel[i].name]

AnyCall(c) == TRUE
OkCall(c) == c.ok

ListSucceeded(r) == \E i \in DOMAIN r.calls : r.calls[i].op = "list_node" /\ r.calls[i].ok

----------------------------------------------------------------------------
(* C1: in both variants, every node examined gets a patch_node call if and only if
   one of its label values contains "stateful" and it was schedulable when read;
   then it gets exactly one, which sends unschedulable = true (and, when the call
   succeeds, the node is unschedulable afterwards); a node without such a label
   value, and a node not examined, gets none. *)
C1_PatchIffStatefulAndSchedulable ==
    \A p \in Procs : IsCordon(inv[p]) =>
        /\ \A d \in Examined(inv[p]) :
              Cardinality(PatchCalls(inv[p], d.name)) =
                  IF StatefulCandidate(d.labels) /\ ~d.unschedulable THEN 1 ELSE 0
        /\ \A n \in NodeNames \ ExaminedNames(inv[p]) : PatchCalls(inv[p], n) = {}
        /\ \A i \in DOMAIN inv[p].calls :
              inv[p].calls[i].op = "patch_node" =>
                  /\ inv[p].calls[i].unschedulable = TRUE
                  /\ inv[p].calls[i].ok => nodes[inv[p].calls[i].name].unschedulable

\* a selector run has examined a schedulable stateful node (one patch) and a node
\* that is no stateful candidate (no patch)
C1_Witness ==
    \E p \in Procs : \E d1, d2 \in Examined(inv[p]) :
        /\ inv[p].kind = "selector" /\ inv[p].pc = "done"
        /\ StatefulCandidate(d1.labels) /\ ~d1.unschedulable
        /\ Cardinality(PatchCalls(inv[p], d1.name)) = 1
        /\ ~StatefulCandidate(d2.labels) /\ PatchCalls(inv[p], d2.name) = {}

(* C2: a cordon run (either variant) on a stateful node that is already
   unschedulable takes the already-cordoned branch, issues no patch_node call for
   it and leaves the node as it was; this holds of a run and of the run that
   follows it on the same node. *)
C2_AlreadyCordonedIsNoOp ==
    \A p \in Procs : (IsCordon(inv[p]) /\ inv[p].pc = "done") =>
        \A n \in ExaminedNames(inv[p]) :
            (\/ n \in inv[p].prev_cordoned
             \/ (StatefulCandidate(inv[p].pre[n].labels) /\ inv[p].pre[n].unschedulable))
            => /\ inv[p].outcome[n] = "ALREADY_CORDONED"
               /\ PatchCalls(inv[p], n) = {}
               /\ nodes[n] = inv[p].pre[n]
               /\ inv[p].kind = "single" =>
                     MarkdownBlock("Node already cordoned", n, <<>>)
                        \in Range(inv[p].enrichments)

\* the second of two runs in sequence on a node cordoned before the first
C2_Witness ==
    \E p \in Procs : \E n \in inv[p].prev_cordoned :
        /\ IsCordon(inv[p]) /\ inv[p].pc = "done"
        /\ n \in ExaminedNames(inv[p])
        /\ inv[p].outcome[n] = "ALREADY_CORDONED"

(* C3: in selector mode a failed patch_node call does not end the invocation: once
   list_node has succeeded no exception leaves the action, every listed node is
   examined, the patch calls are those of the stateful schedulable nodes in list
   order, a node whose patch failed has an ISSUE finding with failure = true and is
   not in cordoned_nodes, and a node whose patch succeeded is in cordoned_nodes. *)
C3_SelectorContinuesAfterFailure ==
    \A p \in Procs : (inv[p].kind = "selector" /\ ListSucceeded(inv[p])) =>
        LET r == inv[p]
            wanted == SelectSeq(SubSeq(r.items, 1, r.idx - 1),
                         LAMBDA d : StatefulCandidate(d.labels) /\ ~d.unschedulable)
        IN
        /\ r.raised = "none"
        /\ r.pc = "done" <=> r.idx = Len(r.items) + 1
        /\ PatchedNames(r, AnyCall) = [i \in 1..Len(wanted) |-> wanted[i].name]
        /\ \A i \in DOMAIN r.calls : r.calls[i].op = "patch_node" =>
              IF r.calls[i].ok
              THEN /\ r.calls[i].name \in Range(r.cordoned_nodes)
                   /\ r.outcome[r.calls[i].name] = "CORDONED"
              ELSE /\ r.calls[i].name \notin Range(r.cordoned_nodes)
                   /\ r.outcome[r.calls[i].name] = "FAILED"
                   /\ \E f \in Range(r.findings) :
                         /\ f.subject = r.calls[i].name
                         /\ f.finding_type = "ISSUE" /\ f.failure = TRUE

\* three stateful schedulable nodes, the second patch fails: CORDONED, FAILED, CORDONED
C3_Witness ==
    \E p \in Procs :
        /\ inv[p].kind = "selector" /\ inv[p].pc = "done"
        /\ Len(inv[p].items) = 3
        /\ \A i \in 1..3 : StatefulCandidate(inv[p].items[i].labels)
                           /\ ~inv[p].items[i].unschedulable
        /\ [i \in 1..3 |-> inv[p].outcome[inv[p].items[i].name]]
              = <<"CORDONED", "FAILED", "CORDONED">>

(* C4: in single-node mode an empty node_name ends the invocation with a validation
   error before any cluster API call: no call is logged, nothing is added to the
   event, and the nodes are as they were when it started. *)
C4_EmptyNameFailsBeforeAnyCall ==
    \A p \in Procs : (inv[p].kind = "single" /\ inv[p].arg = "" /\ inv[p].pc = "done") =>
        /\ inv[p].raised = "ACTION_VALIDATION_ERROR"
        /\ inv[p].calls = <<>>
        /\ inv[p].findings = <<>>
        /\ inv[p].enrichments = <<>>
        /\ nodes = inv[p].pre

C4_Witness ==
    \E p \in Procs :
        /\ inv[p].kind = "single" /\ inv[p].arg = "" /\ inv[p].pc = "done"
        /\ inv[p].raised = "ACTION_VALIDATION_ERROR"

(* C5: in single-node mode a failed read_node or patch_node ends the invocation
   with an action error: the failed call is the last call made, it is made once,
   and no finding with failure = false is emitted; after a failed read no
   patch_node call is made and the nodes are as they were. *)
C5_SingleFailureIsFatal ==
    \A p \in Procs : inv[p].kind = "single" =>
        \A i \in DOMAIN inv[p].calls : ~inv[p].calls[i].ok =>
            /\ inv[p].pc = "done"
            /\ inv[p].raised = "ACTION_UNEXPECTED_ERROR"
            /\ i = Len(inv[p].calls)
            /\ Cardinality(CallsOf(inv[p], inv[p].calls[i].op, inv[p].calls[i].name)) = 1
            /\ \A f \in Range(inv[p].findings) : f.failure = TRUE
            /\ inv[p].calls[i].op = "read_node" =>
                  /\ \A n \in NodeNames : PatchCalls(inv[p], n) = {}
                  /\ nodes = inv[p].pre

\* a run whose patch_node call failed
C5_Witness ==
    \E p \in Procs : \E i \in DOMAIN inv[p].calls :
        /\ inv[p].kind = "single" /\ inv[p].pc = "done"
        /\ inv[p].calls[i].op = "patch_node" /\ ~inv[p].calls[i].ok

\* a run whose read_node call on a node of the cluster failed
C5_WitnessRead ==
    \E p \in Procs : \E i \in DOMAIN inv[p].calls :
        /\ inv[p].kind = "single" /\ inv[p].pc = "done"
        /\ inv[p].calls[i].op = "read_node" /\ ~inv[p].calls[i].ok
        /\ inv[p].calls[i].name \in NodeNames

(* C6: every step of every cordon invocation, succeeding or failing, leaves the
   labels of every node and the storage claim unchanged, and changes the
   unschedulable flag only of a stateful candidate and only from false to true. *)
C6_OnlyCordonsStatefulNodes ==
    [][ /\ pvc_storage' = pvc_storage
        /\ \A n \in NodeNames :
              /\ nodes'[n].labels = nodes[n].labels
              /\ nodes'[n].unschedulable # nodes[n].unschedulable =>
                    /\ StatefulCandidate(nodes[n].labels)
                    /\ ~nodes[n].unschedulable
                    /\ nodes'[n].unschedulable ]_vars

\* a finished selector run has cordoned one node and failed to cordon another,
\* next to a node that is no stateful candidate
C6_Witness ==
    \E p \in Procs : \E n, m, k \in ExaminedNames(inv[p]) :
        /\ inv[p].kind = "selector" /\ inv[p].pc = "done"
        /\ ~inv[p].pre[n].unschedulable /\ nodes[n].unschedulable
        /\ inv[p].outcome[m] = "FAILED" /\ ~nodes[m].unschedulable
        /\ ~StatefulCandidate(nodes[k].labels)

(* C7: when invocations of the two variants overlap in any way, each issues at most
   one patch_node call per node; once all have finished with every call
   successful, every stateful node one of them examined is unschedulable; and the
   overlap changes nothing else: labels are as they were, no node that is not a
   stateful candidate is modified, and no node is uncordoned. *)
C7_RacesConverge ==
    /\ \A p \in Procs : \A n \in NodeNames : Cardinality(PatchCalls(inv[p], n)) <= 1
    /\ \A p \in Procs : IsCordon(inv[p]) =>
          \A n \in NodeNames :
              /\ nodes[n].labels = inv[p].pre[n].labels
              /\ inv[p].pre[n].unschedulable => nodes[n].unschedulable
              /\ ~StatefulCandidate(nodes[n].labels) => nodes[n] = inv[p].pre[n]
    /\ ( /\ \A p \in Procs : inv[p].pc = "done" /\ inv[p].raised = "none"
         /\ \A p \in Procs : \A i \in DOMAIN inv[p].calls : inv[p].calls[i].ok )
       => \A p \in Procs : \A d \in Examined(inv[p]) :
              StatefulCandidate(d.labels) => nodes[d.name].unschedulable

\* a single-node run and a selector run have both finished after each patched the
\* same node: one of the two patches was redundant
C7_Witness ==
    \E p, q \in Procs : \E n \in NodeNames :
        /\ inv[p].kind = "single" /\ inv[q].kind = "selector"
        /\ inv[p].pc = "done" /\ inv[q].pc = "done"
        /\ \E i \in PatchCalls(inv[p], n) : inv[p].calls[i].ok
        /\ \E i \in PatchCalls(inv[q], n) : inv[q].calls[i].ok
        /\ nodes[n].unschedulable

(* C8: in single-node mode an invocation that runs to completion emits the
   enrichment "Node X cordoned" if and only if it patched node X to
   unschedulable = true. *)
C8_CordonedTextIffPatched ==
    \A p \in Procs :
        (inv[p].kind = "single" /\ inv[p].pc = "done" /\ inv[p].raised = "none") =>
            ( MarkdownBlock("Node cordoned", inv[p].node.name, <<>>)
                 \in Range(inv[p].enrichments)
              <=> \E i \in PatchCalls(inv[p], inv[p].node.name) :
                     inv[p].calls[i].ok /\ inv[p].calls[i].unschedulable )

(* C9: resize_persistent_volume on a claim whose storage request is "NGi", N a
   positive integer: when the read and the patch succeed the storage request patched
   is floor(N * 1.05) Gi, it is strictly greater than N, and a REPORT finding with
   failure = false is emitted; when the read fails no patch is issued and an ISSUE
   finding with failure = true is emitted. *)
C9_ResizeIncreasesByFivePercent ==
    \A p \in Procs : (inv[p].kind = "resize" /\ inv[p].pc = "done") =>
        LET r == inv[p]
            reads == {i \in DOMAIN r.calls : r.calls[i].op = "read_pvc"}
            patches == {i \in DOMAIN r.calls : r.calls[i].op = "patch_pvc"}
        IN
        /\ (\E i \in reads : ~r.calls[i].ok) =>
              /\ patches = {}
              /\ \E f \in Range(r.findings) : f.finding_type = "ISSUE" /\ f.failure = TRUE
        /\ \A i \in patches : \A N \in 1..(MaxSize + 3) :
              (r.calls[i].ok /\ r.current_size = format_int(N) \o GiSuffix) =>
                  /\ r.calls[i].storage = format_int((N * 105) \div 100) \o GiSuffix
                  /\ (N * 105) \div 100 > N
                  /\ pvc_storage = r.calls[i].storage
                  /\ \E f \in Range(r.findings) :
                        f.finding_type = "REPORT" /\ f.failure = FALSE

(* C10: in selector mode an invocation whose list_node call succeeded ends with
   exactly one finding of aggregation key CordonStatefulNodes, emitted last:
   "Cordoned Stateful Nodes", with an enrichment listing the nodes whose patch
   succeeded, in list order and without duplicates, if and only if a patch
   succeeded; otherwise "No Stateful Nodes Found" with the enrichment
   "No stateful nodes found to cordon.". *)
C10_SelectorSummary ==
    \A p \in Procs :
        (inv[p].kind = "selector" /\ inv[p].pc = "done" /\ ListSucceeded(inv[p])) =>
            LET r == inv[p]
                patched == PatchedNames(r, OkCall)
                listed == [i \in 1..Len(r.items) |-> r.items[i].name]
                last_finding == r.findings[Len(r.findings)]
                last_block == r.enrichments[Len(r.enrichments)]
            IN
            /\ {i \in DOMAIN r.findings :
                   r.findings[i].aggregation_key = "CordonStatefulNodes"} = {Len(r.findings)}
            /\ r.findings # <<>> /\ r.enrichments # <<>>
            /\ last_finding.finding_type = "REPORT" /\ last_finding.failure = FALSE
            /\ patched = SelectSeq(listed, LAMBDA n : n \in Range(patched))
            /\ IF patched # <<>>
               THEN /\ last_finding.title = "Cordoned Stateful Nodes"
                    /\ last_block = MarkdownBlock("Cordoned nodes", "", patched)
               ELSE /\ last_finding.title = "No Stateful Nodes Found"
                    /\ last_block = MarkdownBlock("No stateful nodes found to cordon.",
                                                  "", <<>>)

\* a run that cordoned two nodes and failed to cordon one between them
C10_Witness ==
    \E p \in Procs :
        /\ inv[p].kind = "selector" /\ inv[p].pc = "done"
        /\ Len(PatchedNames(inv[p], OkCall)) = 2
        /\ Len(PatchedNames(inv[p], AnyCall)) = 3
        /\ ~inv[p].calls[3].ok

\* a run in which every patch failed: the summary is "No Stateful Nodes Found"
C10_WitnessAllFailed ==
    \E p \in Procs :
        /\ inv[p].kind = "selector" /\ inv[p].pc = "done"
        /\ PatchedNames(inv[p], OkCall) = <<>>
        /\ Len(PatchedNames(inv[p], AnyCall)) >= 1

====
